---- MODULE Spec2Model ----
(***************************************************************************)
(* Model of the stock data-quality pipeline (StockDataCleaner), its        *)
(* callers (analyze_from_file, quick_clean, FileProcessor.batch_process,   *)
(* main_with_cleaning) and the behaviour classifiers.                      *)
(*                                                                         *)
(* Numbers are integers.  A data cell is an integer, or NaN (a missing     *)
(* cell, NaN/NaT of pandas), or BadText (a raw cell that does not parse).  *)
(* A column name is a sequence of one-character strings so that            *)
(* str.capitalize and str.lower are computed, not assumed.                 *)
(***************************************************************************)
EXTENDS Integers, Sequences, FiniteSets, TLC

\* ------------------------------------------------------------------ bounds
MaxRows == 5          \* rows of a dataset given to a fresh cleaner
MaxDefects == 2       \* defective rows in such a dataset
MaxBatchRows == 2     \* rows of a file of a batch
MaxFiles == 3         \* files of one batch_process call

\* ------------------------------------------------------ cells and sentinels
NaN == -1000          \* a missing cell (NaN / NaT)
BadText == -2000      \* a raw cell that to_datetime / to_numeric cannot parse

IsNull(c) == c = NaN

\* ------------------------------------------------------------ column names
LowerLetters == <<"a","c","d","e","g","h","i","j","l","m","n","o","p","s","t","u","v","w">>
UpperLetters == <<"A","C","D","E","G","H","I","J","L","M","N","O","P","S","T","U","V","W">>

LetterIdx == 1..Len(LowerLetters)

Range(s) == {s[i] : i \in 1..Len(s)}

\* str.lower / str.upper on the letters, as tables
LowerTable ==
  [c \in Range(UpperLetters) |-> LowerLetters[CHOOSE i \in LetterIdx : UpperLetters[i] = c]]
UpperTable ==
  [c \in Range(LowerLetters) |-> UpperLetters[CHOOSE i \in LetterIdx : LowerLetters[i] = c]]

\* str.lower / str.upper on one character
LowerCh(c) == IF c \in DOMAIN LowerTable THEN LowerTable[c] ELSE c
UpperCh(c) == IF c \in DOMAIN UpperTable THEN UpperTable[c] ELSE c

LowerName(n) == [i \in 1..Len(n) |-> LowerCh(n[i])]
UpperName(n) == [i \in 1..Len(n) |-> UpperCh(n[i])]

\* a capitalisation that upper-cases the first character and keeps the rest
CapitalizeFirstOnly(n) == [i \in 1..Len(n) |-> IF i = 1 THEN UpperCh(n[i]) ELSE n[i]]

\* str.capitalize: first character upper-cased, the rest lower-cased
Capitalize(n) == [i \in 1..Len(n) |-> IF i = 1 THEN UpperCh(n[i]) ELSE LowerCh(n[i])]

ColDate == <<"D","a","t","e">>
ColOpen == <<"O","p","e","n">>
ColHigh == <<"H","i","g","h">>
ColLow == <<"L","o","w">>
ColClose == <<"C","l","o","s","e">>
ColVolume == <<"V","o","l","u","m","e">>

\* required_cols of validate_stock_data
required_cols == <<ColDate, ColOpen, ColHigh, ColLow, ColClose, ColVolume>>

\* [col for col in required_cols if col not in df.columns]
missing_cols(cols) == {c \in Range(required_cols) : c \notin Range(cols)}

CapitalizeAll(cols) == [i \in 1..Len(cols) |-> Capitalize(cols[i])]

\* validate_stock_data: the columns it leaves behind and its return value
ValidateColumns(cols) ==
  IF missing_cols(cols) = {} THEN cols ELSE CapitalizeAll(cols)

\* a validation that does not look at the columns again after renaming them
ValidateOkNoRecheck(cols) == TRUE

ValidateOk(cols) == missing_cols(ValidateColumns(cols)) = {}

\* ----------------------------------------------------------------- datasets
\* A row: its index label and the six required cells.
Fields == {"Date", "Open", "High", "Low", "Close", "Volume"}
price_cols == {"Open", "High", "Low", "Close"}
numeric_cols == {"Open", "High", "Low", "Close", "Volume"}

Idx(s) == 1..Len(s)

\* the rows of s at the positions satisfying keep, in order
RECURSIVE Filter(_, _)
Filter(s, keep) ==
  IF s = <<>> THEN <<>>
  ELSE LET rest == Filter(Tail(s), [i \in 1..(Len(s) - 1) |-> keep[i + 1]])
       IN IF keep[1] THEN <<Head(s)>> \o rest ELSE rest

\* a required name that two columns carry: df[col] is then a frame of two
\* columns, which pd.to_datetime and pd.to_numeric reject with an exception
duplicated_cols(cols) ==
  {c \in Range(required_cols) : Cardinality({i \in Idx(cols) : cols[i] = c}) > 1}

\* pd.to_datetime / pd.to_numeric with errors='coerce'
Coerce(c) == IF c = BadText THEN NaN ELSE c

\* fix_data_types
fix_data_types(rows) ==
  [i \in Idx(rows) |-> [f \in DOMAIN rows[i] |->
      IF f \in Fields THEN Coerce(rows[i][f]) ELSE rows[i][f]]]

\* df.isnull().sum().sum()
NullCount(rows) ==
  Cardinality({<<i, f>> \in Idx(rows) \X Fields : IsNull(rows[i][f])})

HasNull(r) == \E f \in Fields : IsNull(r[f])

\* a dropna that keeps every row
dropna_keep_all(rows) == rows

\* df.dropna()
dropna(rows) == Filter(rows, [i \in Idx(rows) |-> ~HasNull(rows[i])])

\* Series.ffill(): the last non-missing value at or before position i
RECURSIVE FfillAt(_, _, _)
FfillAt(rows, f, i) ==
  IF i = 0 THEN NaN
  ELSE IF ~IsNull(rows[i][f]) THEN rows[i][f]
  ELSE FfillAt(rows, f, i - 1)

\* a forward fill that also carries the last Volume forward
forward_fill_volume_too(rows) ==
  [i \in Idx(rows) |-> [f \in DOMAIN rows[i] |->
      IF f \in numeric_cols THEN FfillAt(rows, f, i) ELSE rows[i][f]]]

\* the forward_fill branch of handle_missing_values
forward_fill(rows) ==
  [i \in Idx(rows) |-> [f \in DOMAIN rows[i] |->
      IF f \in price_cols THEN FfillAt(rows, f, i)
      ELSE IF f = "Volume" /\ IsNull(rows[i][f]) THEN 0
      ELSE rows[i][f]]]

\* the positions before / after i whose cell of column f is not missing
ValidBefore(rows, f, i) == {j \in 1..(i - 1) : ~IsNull(rows[j][f])}
ValidAfter(rows, f, i) == {j \in (i + 1)..Len(rows) : ~IsNull(rows[j][f])}

\* Series.interpolate(method='linear'): a missing cell between two values lies on
\* the line through them (rows equally spaced), one after the last value repeats
\* it, one before the first value stays missing.  The division is exact on the
\* series the model uses (see SeriesUnit).
InterpolateAt(rows, f, i) ==
  IF ~IsNull(rows[i][f]) THEN rows[i][f]
  ELSE IF ValidBefore(rows, f, i) = {} THEN NaN
  ELSE LET p == CHOOSE j \in ValidBefore(rows, f, i) :
                  \A k \in ValidBefore(rows, f, i) : k <= j
       IN IF ValidAfter(rows, f, i) = {} THEN rows[p][f]
          ELSE LET n == CHOOSE j \in ValidAfter(rows, f, i) :
                          \A k \in ValidAfter(rows, f, i) : j <= k
               IN rows[p][f] + ((rows[n][f] - rows[p][f]) * (i - p)) \div (n - p)

\* the interpolate branch of handle_missing_values
interpolate(rows) ==
  [i \in Idx(rows) |-> [f \in DOMAIN rows[i] |->
      IF f \in numeric_cols THEN InterpolateAt(rows, f, i) ELSE rows[i][f]]]

RECURSIVE SumInts(_)
SumInts(s) == IF s = <<>> THEN 0 ELSE Head(s) + SumInts(Tail(s))

\* Series.mean(): missing cells skipped, NaN when no cell is left
Mean(rows, f) ==
  LET v == [i \in Idx(rows) |-> rows[i][f]]
      valid == Filter(v, [i \in Idx(rows) |-> ~IsNull(v[i])])
  IN IF valid = <<>> THEN NaN ELSE SumInts(valid) \div Len(valid)

\* the mean branch of handle_missing_values
fill_mean(rows) ==
  [i \in Idx(rows) |-> [f \in DOMAIN rows[i] |->
      IF f \in numeric_cols /\ IsNull(rows[i][f]) THEN Mean(rows, f) ELSE rows[i][f]]]

\* the strategies handle_missing_values knows
Strategies == {"forward_fill", "interpolate", "drop", "mean"}

\* the dataset after the branch of the chosen strategy
apply_strategy(rows, strategy) ==
  CASE strategy = "forward_fill" -> forward_fill(rows)
    [] strategy = "interpolate" -> interpolate(rows)
    [] strategy = "drop" -> dropna(rows)
    [] strategy = "mean" -> fill_mean(rows)
    [] OTHER -> rows

\* handle_missing_values(df, strategy): dataset and report
handle_missing(rows, strategy, rep) ==
  LET total_missing == NullCount(rows)
      df_cleaned == dropna(apply_strategy(rows, strategy))
      missing_after == NullCount(df_cleaned)
  IN IF total_missing = 0
     THEN [df |-> rows, report |-> rep]
     ELSE [df |-> df_cleaned,
           report |-> [rep EXCEPT !.missing_values_found = total_missing,
                                  !.missing_values_handled = total_missing - missing_after]]

\* handle_missing_values(df, strategy='forward_fill'), the call of clean_pipeline
handle_missing_values(rows, rep) == handle_missing(rows, "forward_fill", rep)

\* df.duplicated(subset=['Date']): an earlier row has the same Date
duplicated(rows) ==
  [i \in Idx(rows) |-> \E j \in 1..(i - 1) : rows[j].Date = rows[i].Date]

\* handle_duplicates
handle_duplicates(rows, rep) ==
  LET duplicates == duplicated(rows)
      num_duplicates == Cardinality({i \in Idx(rows) : duplicates[i]})
      found == [rep EXCEPT !.duplicates_found = num_duplicates]
  IN IF num_duplicates = 0
     THEN [df |-> rows, report |-> found]
     ELSE [df |-> Filter(rows, [i \in Idx(rows) |-> ~duplicates[i]]),
           report |-> [found EXCEPT !.duplicates_removed = num_duplicates]]

\* ----------------------------------------------------------------- outliers
\* the values of a sequence of integers in ascending order
RECURSIVE SortInts(_)
SortInts(s) ==
  IF s = <<>> THEN <<>>
  ELSE LET m == CHOOSE i \in Idx(s) : \A j \in Idx(s) : s[i] <= s[j]
       IN <<s[m]>> \o SortInts(Filter(s, [i \in Idx(s) |-> i # m]))

\* the non-missing values of column f
ColumnValues(rows, f) ==
  LET col == [i \in Idx(rows) |-> rows[i][f]]
  IN Filter(col, [i \in Idx(rows) |-> ~IsNull(col[i])])

\* 4 * Series.quantile(q4 / 4), linear interpolation between order statistics;
\* s is sorted and not empty
Quantile4(s, q4) ==
  LET pos == q4 * (Len(s) - 1)
      lo == pos \div 4
      r == pos % 4
  IN IF r = 0 THEN 4 * s[lo + 1]
     ELSE 4 * s[lo + 1] + r * (s[lo + 2] - s[lo + 1])

\* default threshold of detect_outliers
threshold == 3

\* bounds one IQR away from the quartiles
iqr_bounds_one_iqr(s) ==
  LET Q1 == Quantile4(s, 1)
      Q3 == Quantile4(s, 3)
      IQR == Q3 - Q1
  IN [lower_bound |-> Q1 - IQR, upper_bound |-> Q3 + IQR]

\* lower_bound and upper_bound of the iqr branch, times 4; s is sorted, not empty
iqr_bounds(s) ==
  LET Q1 == Quantile4(s, 1)
      Q3 == Quantile4(s, 3)
      IQR == Q3 - Q1
  IN [lower_bound |-> Q1 - threshold * IQR, upper_bound |-> Q3 + threshold * IQR]

\* df[(df[col] < lower_bound) | (df[col] > upper_bound)].index
OutsideBounds(rows, f, b) ==
  {rows[i].idx : i \in {k \in Idx(rows) :
      /\ ~IsNull(rows[k][f])
      /\ (4 * rows[k][f] < b.lower_bound \/ 4 * rows[k][f] > b.upper_bound)}}

\* the iqr branch of detect_outliers for one column: the flagged index labels
iqr_outliers(rows, f) ==
  UNION {IF s = <<>> THEN {}
         ELSE UNION {OutsideBounds(rows, f, b) : b \in {iqr_bounds(s)}} :
         s \in {SortInts(ColumnValues(rows, f))}}

\* the zscore branch of detect_outliers for one column.  With n values of sum S,
\* mean = S/n and std^2 = sum((x - mean)^2)/(n - 1); |x - mean|/std > threshold
\* is, squared and multiplied by n^2 (n - 1) std^2,
\* (n - 1)(n x - S)^2 > threshold^2 sum((n x_i - S)^2); no value is flagged when
\* std is 0 or undefined (n = 1).
zscore_outliers(rows, f) ==
  LET vals == ColumnValues(rows, f)
      n == Len(vals)
      S == SumInts(vals)
  IN UNION {{rows[k].idx : k \in {j \in Idx(rows) :
                /\ ~IsNull(rows[j][f])
                /\ (n - 1) * (n * rows[j][f] - S) * (n * rows[j][f] - S)
                     > threshold * threshold * SS}} :
            SS \in {SumInts([i \in Idx(vals) |-> (n * vals[i] - S) * (n * vals[i] - S)])}}

\* the methods detect_outliers knows
Methods == {"iqr", "zscore"}

\* the row labels one column flags under a method
column_outliers(rows, f, method) ==
  IF method = "iqr" THEN iqr_outliers(rows, f) ELSE zscore_outliers(rows, f)

\* a detection that keeps only the rows every column flags
outlier_indices_by_all_columns(rows, method) ==
  {x \in UNION {column_outliers(rows, f, method) : f \in numeric_cols} :
     \A f \in numeric_cols : x \in column_outliers(rows, f, method)}

\* outlier_indices.update(outliers) over the numeric columns
outlier_indices_by(rows, method) ==
  UNION {column_outliers(rows, f, method) : f \in numeric_cols}

\* detect_outliers(df, method): the flagged labels and the report
detect_outliers_by(rows, method, rep) ==
  CHOOSE r \in {[indices |-> o, report |-> [rep EXCEPT !.outliers_detected = Cardinality(o)]] :
                  o \in {outlier_indices_by(rows, method)}} : TRUE

\* detect_outliers(df, method='iqr'), the method every caller of clean_pipeline uses
outlier_indices_of(rows) == outlier_indices_by(rows, "iqr")

detect_outliers(rows, rep) == detect_outliers_by(rows, "iqr", rep)

\* a removal that appends the flagged rows instead of dropping them
remove_outliers_concat(rows, indices, rep) ==
  IF Cardinality(indices) = 0
  THEN [df |-> rows, report |-> rep]
  ELSE [df |-> rows \o Filter(rows, [i \in Idx(rows) |-> rows[i].idx \in indices]),
        report |-> [rep EXCEPT !.outliers_removed = Cardinality(indices)]]

\* remove_outliers
remove_outliers(rows, indices, rep) ==
  IF Cardinality(indices) = 0
  THEN [df |-> rows, report |-> rep]
  ELSE [df |-> Filter(rows, [i \in Idx(rows) |-> rows[i].idx \notin indices]),
        report |-> [rep EXCEPT !.outliers_removed = Cardinality(indices)]]

\* -------------------------------------------------------------- price logic
Lt(a, b) == ~IsNull(a) /\ ~IsNull(b) /\ a < b

\* a validator that only compares High with Low
validate_price_logic_high_low_only(rows) ==
  {c \in {"High < Low"} : \E i \in Idx(rows) : Lt(rows[i].High, rows[i].Low)}

\* validate_price_logic: the list of issues, as the set of failed checks
validate_price_logic(rows) ==
  {c \in {"High < Low", "Close outside High-Low range",
          "Open outside High-Low range", "Negative volume"} :
     \E i \in Idx(rows) :
        \/ c = "High < Low" /\ Lt(rows[i].High, rows[i].Low)
        \/ c = "Close outside High-Low range"
             /\ (Lt(rows[i].High, rows[i].Close) \/ Lt(rows[i].Close, rows[i].Low))
        \/ c = "Open outside High-Low range"
             /\ (Lt(rows[i].High, rows[i].Open) \/ Lt(rows[i].Open, rows[i].Low))
        \/ c = "Negative volume" /\ Lt(rows[i].Volume, 0)}

\* --------------------------------------------------------------------- sort
\* a < b in sort_values('Date'): missing dates go last
DateBefore(a, b) == ~IsNull(a) /\ (IsNull(b) \/ a < b)

RECURSIVE SortRows(_)
SortRows(rows) ==
  IF rows = <<>> THEN <<>>
  ELSE LET m == CHOOSE i \in Idx(rows) :
                  /\ \A j \in Idx(rows) : ~DateBefore(rows[j].Date, rows[i].Date)
                  /\ \A j \in 1..(i - 1) : DateBefore(rows[i].Date, rows[j].Date)
       IN <<rows[m]>> \o SortRows(Filter(rows, [i \in Idx(rows) |-> i # m]))

\* a sort that only resets the index
sort_by_date_reset_only(rows) == [i \in Idx(rows) |-> [rows[i] EXCEPT !.idx = i - 1]]

\* sort_by_date: sort_values('Date').reset_index(drop=True)
sort_by_date(rows) ==
  LET s == SortRows(rows)
  IN [i \in Idx(s) |-> [s[i] EXCEPT !.idx = i - 1]]

\* ------------------------------------------------------------ quality score
\* A score is a fraction num/den (den > 0) in lowest terms, or not-a-number.
RECURSIVE GCD(_, _)
GCD(a, b) == IF b = 0 THEN a ELSE GCD(b, a % b)

Abs(x) == IF x < 0 THEN -x ELSE x
Max(a, b) == IF a > b THEN a ELSE b

Frac(n, d) ==
  LET g == GCD(Abs(n), d)
  IN [nan |-> FALSE, num |-> n \div g, den |-> d \div g]

NotANumber == [nan |-> TRUE, num |-> 0, den |-> 1]

\* a < b on scores; every comparison with not-a-number is false
ScoreLt(a, b) == ~a.nan /\ ~b.nan /\ a.num * b.den < b.num * a.den

\* Python's min(a, b) and max(a, b): b replaces a only if b < a (b > a)
PyMin(a, b) == IF ScoreLt(b, a) THEN b ELSE a
PyMax(a, b) == IF ScoreLt(a, b) THEN b ELSE a

\* the three deductions of calculate_quality_score
MissingWeight == 30
DuplicateWeight == 20
OutlierWeight == 15

\* score before clamping: 100 - missing_ratio*30 - duplicate_ratio*20 - outlier_ratio*15
RawScore(rows, ncols, rep) ==
  LET cells == Len(rows) * ncols
      orig == Max(rep.total_rows_original, 1)
  IN IF cells = 0 THEN NotANumber      \* 0 / 0 on numpy integers
     ELSE Frac(100 * cells * orig
               - MissingWeight * NullCount(rows) * orig
               - DuplicateWeight * rep.duplicates_removed * cells
               - OutlierWeight * rep.outliers_removed * cells,
               cells * orig)

\* a score that is not clamped
calculate_quality_score_unclamped(rows, ncols, rep) == RawScore(rows, ncols, rep)

\* calculate_quality_score: max(0, min(100, score))
calculate_quality_score(rows, ncols, rep) ==
  PyMax(Frac(0, 1), PyMin(Frac(100, 1), RawScore(rows, ncols, rep)))

\* the report of a newly constructed StockDataCleaner
InitReport ==
  [total_rows_original |-> 0, total_rows_cleaned |-> 0,
   missing_values_found |-> 0, missing_values_handled |-> 0,
   outliers_detected |-> 0, outliers_removed |-> 0,
   duplicates_found |-> 0, duplicates_removed |-> 0,
   data_quality_score |-> Frac(0, 1)]

\* a removal that does not ask for the flag
should_remove_unasked(fl, indices) == Cardinality(indices) > 0

\* line 421: remove_outliers_flag and len(outlier_indices) > 0
should_remove(fl, indices) == fl /\ Cardinality(indices) > 0

\* load_data: the report after reading n rows
load_data(rep, n) == [rep EXCEPT !.total_rows_original = n]

\* a final report that leaves total_rows_cleaned as it was
finish_report_score_only(rows, ncols, rep) ==
  [rep EXCEPT !.data_quality_score = calculate_quality_score(rows, ncols, rep)]

\* lines 432-436 of clean_pipeline: final row count, then the score
finish_report(rows, ncols, rep) ==
  LET counted == [rep EXCEPT !.total_rows_cleaned = Len(rows)]
  IN [counted EXCEPT !.data_quality_score = calculate_quality_score(rows, ncols, counted)]

\* clean_pipeline as a function of the dataset, the report it starts from and the flag
clean_pipeline(cols, rows, rep, fl) ==
  IF ~ValidateOk(cols)
  THEN [result |-> "None", columns |-> ValidateColumns(cols), df |-> rows, report |-> rep]
  ELSE IF duplicated_cols(ValidateColumns(cols)) # {}
  THEN [result |-> "raise", columns |-> ValidateColumns(cols), df |-> rows, report |-> rep]
  ELSE LET m == handle_missing_values(fix_data_types(rows), rep)
           d == handle_duplicates(m.df, m.report)
           o == detect_outliers(d.df, d.report)
           r == IF should_remove(fl, o.indices)
                THEN remove_outliers(d.df, o.indices, o.report)
                ELSE [df |-> d.df, report |-> o.report]
           sorted == sort_by_date(r.df)
       IN [result |-> "df", columns |-> ValidateColumns(cols), df |-> sorted,
           report |-> finish_report(sorted, Len(cols), r.report)]

\* ------------------------------------------------ convert_to_standard_format
\* str.strip: leading and trailing blanks removed
RECURSIVE Strip(_)
Strip(n) ==
  IF n = <<>> THEN n
  ELSE IF Head(n) = " " THEN Strip(Tail(n))
  ELSE IF n[Len(n)] = " " THEN Strip(SubSeq(n, 1, Len(n) - 1))
  ELSE n

\* column_mapping of convert_to_standard_format
column_mapping ==
  {<< <<"d","a","t","e">>, ColDate >>,
   << <<"d","a","t","e","t","i","m","e">>, ColDate >>,
   << <<"t","i","m","e","s","t","a","m","p">>, ColDate >>,
   << <<"t","i","m","e">>, ColDate >>,
   << <<"o","p","e","n">>, ColOpen >>,
   << <<"o">>, ColOpen >>,
   << <<"h","i","g","h">>, ColHigh >>,
   << <<"h">>, ColHigh >>,
   << <<"l","o","w">>, ColLow >>,
   << <<"l">>, ColLow >>,
   << <<"c","l","o","s","e">>, ColClose >>,
   << <<"c">>, ColClose >>,
   << <<"a","d","j"," ","c","l","o","s","e">>, ColClose >>,
   << <<"a","d","j","u","s","t","e","d"," ","c","l","o","s","e">>, ColClose >>,
   << <<"v","o","l","u","m","e">>, ColVolume >>,
   << <<"v","o","l">>, ColVolume >>,
   << <<"v">>, ColVolume >>}

\* df.rename(columns=column_mapping) on one name
Rename(n) ==
  IF \E p \in column_mapping : p[1] = n
  THEN (CHOOSE p \in column_mapping : p[1] = n)[2]
  ELSE n

\* convert_to_standard_format: lower-case, strip, rename by the alias table
convert_to_standard_format(cols) ==
  [i \in Idx(cols) |-> Rename(Strip(LowerName(cols[i])))]

\* ------------------------------------------------------------------- inputs
\* Row i of a well-formed series, and the defects a row may carry.
BaseRow(i) ==
  [idx |-> i - 1, Date |-> i, Open |-> 10 + i, High |-> 12 + i,
   Low |-> 9 + i, Close |-> 11 + i, Volume |-> 100]

Defects == {"dup", "baddate", "nanclose", "badvol", "spike", "late"}
Kinds == {"ok"} \cup Defects

MakeRow(i, k) ==
  CASE k = "ok" -> BaseRow(i)
    [] k = "dup" -> [BaseRow(i) EXCEPT !.Date = IF i = 1 THEN 2 ELSE i - 1]
    [] k = "baddate" -> [BaseRow(i) EXCEPT !.Date = BadText]
    [] k = "nanclose" -> [BaseRow(i) EXCEPT !.Close = NaN]
    [] k = "badvol" -> [BaseRow(i) EXCEPT !.Volume = BadText]
    [] k = "spike" -> [BaseRow(i) EXCEPT !.High = 500]
    [] k = "late" -> [BaseRow(i) EXCEPT !.Date = i + 2 * MaxRows]

\* every dataset of at most maxRows rows of which at most maxDefects are defective
Datasets(maxRows, maxDefects, kinds) ==
  UNION {{[i \in 1..n |-> MakeRow(i, ks[i])] :
            ks \in {k \in [1..n -> kinds] :
                      Cardinality({i \in 1..n : k[i] # "ok"}) <= maxDefects}} :
         n \in 0..maxRows}

Casings == {"title", "lower", "upper"}

Cased(n, c) ==
  CASE c = "title" -> n
    [] c = "lower" -> LowerName(n)
    [] c = "upper" -> UpperName(n)

ReqIdx == Idx(required_cols)

\* headers: the six names in one casing, one name left out, or one name lower-cased
Headers ==
  {[i \in ReqIdx |-> Cased(required_cols[i], c)] : c \in Casings}
  \cup {Filter([i \in ReqIdx |-> Cased(required_cols[i], c)], [i \in ReqIdx |-> i # f]) :
          c \in Casings, f \in ReqIdx}
  \cup {[i \in ReqIdx |-> IF i = f THEN LowerName(required_cols[i]) ELSE required_cols[i]] :
          f \in ReqIdx}

\* a header with the six names in lower case and a second close column, CLOSE
TwoCloseHeader ==
  LET l == [i \in ReqIdx |-> LowerName(required_cols[i])]
  IN SubSeq(l, 1, 5) \o <<UpperName(ColClose)>> \o SubSeq(l, 6, 6)

\* the header of a Yahoo Finance export
YahooHeader ==
  <<ColDate, ColOpen, ColHigh, ColLow, ColClose,
    <<"A","d","j"," ","C","l","o","s","e">>, ColVolume>>

\* rows whose prices or volume break a rule of validate_price_logic
MaxLogicRows == 2
LogicKinds == {"ok", "crossed", "closeout", "openout", "negvol"}

MakeLogicRow(i, k) ==
  CASE k = "ok" -> BaseRow(i)
    [] k = "crossed" -> [BaseRow(i) EXCEPT !.High = 8 + i]
    [] k = "closeout" -> [BaseRow(i) EXCEPT !.Close = 13 + i]
    [] k = "openout" -> [BaseRow(i) EXCEPT !.Open = 8 + i]
    [] k = "negvol" -> [BaseRow(i) EXCEPT !.Volume = -5]

LogicDatasets ==
  UNION {{[i \in 1..n |-> MakeLogicRow(i, ks[i])] : ks \in [1..n -> LogicKinds]} :
         n \in 1..MaxLogicRows}

\* what a freshly constructed cleaner is given
FreshInputs ==
  {[columns |-> required_cols, rows |-> r] :
     r \in Datasets(MaxRows, MaxDefects, Kinds) \cup LogicDatasets}
  \cup {[columns |-> h, rows |-> r] :
          h \in Headers \cup {TwoCloseHeader}, r \in Datasets(1, 1, Kinds)}

\* what fetch_stock_data hands over: the six columns and at least one row
DownloadInputs == {x \in FreshInputs : x.columns = required_cols /\ x.rows # <<>>}

\* the files of a batch
BatchKinds == {"ok", "dup", "baddate", "nanclose"}

BatchInputs ==
  {[columns |-> h, rows |-> r] :
     h \in {[i \in ReqIdx |-> LowerName(required_cols[i])]},
     r \in Datasets(MaxBatchRows, 1, BatchKinds)}
  \cup {[columns |-> YahooHeader, rows |-> r] : r \in Datasets(1, 0, BatchKinds)}

\* type-normalized series for the stages called on their own: row i with cells
\* in units of SeriesUnit, so that means and interpolated values are integers
MaxSeriesRows == 4
SeriesUnit == 60

SeriesRow(i) ==
  [idx |-> i - 1, Date |-> i, Open |-> SeriesUnit * (i + 1), High |-> SeriesUnit * (i * i + 2),
   Low |-> SeriesUnit, Close |-> SeriesUnit * i * i, Volume |-> SeriesUnit * (10 - i)]

MissingKinds == {"none", "date", "close", "open", "volume", "close_volume"}

MakeSeriesRow(i, k) ==
  CASE k = "none" -> SeriesRow(i)
    [] k = "date" -> [SeriesRow(i) EXCEPT !.Date = NaN]
    [] k = "close" -> [SeriesRow(i) EXCEPT !.Close = NaN]
    [] k = "open" -> [SeriesRow(i) EXCEPT !.Open = NaN]
    [] k = "volume" -> [SeriesRow(i) EXCEPT !.Volume = NaN]
    [] k = "close_volume" -> [SeriesRow(i) EXCEPT !.Close = NaN, !.Volume = NaN]

\* every series of at most maxRows rows
SeriesInputs(maxRows) ==
  UNION {{[i \in 1..n |-> MakeSeriesRow(i, ks[i])] : ks \in [1..n -> MissingKinds]} :
         n \in 0..maxRows}

\* series for detect_outliers called on its own: row i, and rows that stand out
MaxOutlierRows == 11
MaxOutlierDefects == 2

OutlierRow(i) ==
  [idx |-> i - 1, Date |-> i, Open |-> 100, High |-> 100 + 2 * i,
   Low |-> 90, Close |-> 100, Volume |-> 100]

OutlierKinds == {"ok", "spike", "crash"}

MakeOutlierRow(i, k) ==
  CASE k = "ok" -> OutlierRow(i)
    [] k = "spike" -> [OutlierRow(i) EXCEPT !.High = 500]
    [] k = "crash" -> [OutlierRow(i) EXCEPT !.High = 500, !.Volume = 400]

\* the High column of the worked example
ExampleHigh == <<102, 104, 106, 107, 500, 109, 112, 110, 114, 117>>

ExampleSeries == [i \in Idx(ExampleHigh) |-> [OutlierRow(i) EXCEPT !.High = ExampleHigh[i]]]

\* the example, and every series of at most maxRows rows of which at most
\* maxDefects stand out
OutlierInputs(maxRows, maxDefects) ==
  {ExampleSeries}
  \cup UNION {UNION {{[i \in 1..n |-> MakeOutlierRow(i, IF i \in at THEN ks[i] ELSE "ok")] :
                        ks \in [at -> OutlierKinds \ {"ok"}]} :
                     at \in {a \in SUBSET (1..n) : Cardinality(a) <= maxDefects}} :
              n \in 0..maxRows}

\* the report of a new cleaner, and of one that repaired a missing cell before
CleanerReports ==
  {InitReport,
   [InitReport EXCEPT !.missing_values_found = 1, !.missing_values_handled = 1]}

\* --------------------------------------------------------------- classifiers
\* Features are in tenths: Price_Change_Pct = -25 stands for -2.5 (per cent),
\* Volume_Zscore = 15 for 1.5.  A feature may be NaN (undefined).
Gt(a, b) == ~IsNull(a) /\ ~IsNull(b) /\ a > b

\* a panic rule that also takes a price change of exactly -2.5
panic_mask_at_threshold(r) ==
  /\ ~IsNull(r.Price_Change_Pct) /\ r.Price_Change_Pct <= -25
  /\ Gt(r.Volume_Zscore, 15) /\ Gt(r.Volatility, 20)

\* a FOMO rule that already takes a flat price
fomo_mask_from_flat(r) ==
  Gt(r.Price_Change_Pct, -5) /\ Gt(r.Volume_Zscore, 15) /\ Gt(r.Volatility, 15)

\* panic_mask, fomo_mask, overtrade_mask (the same three in both classifiers)
panic_mask(r) ==
  Lt(r.Price_Change_Pct, -25) /\ Gt(r.Volume_Zscore, 15) /\ Gt(r.Volatility, 20)
fomo_mask(r) ==
  Gt(r.Price_Change_Pct, 25) /\ Gt(r.Volume_Zscore, 15) /\ Gt(r.Volatility, 15)
overtrade_mask(r) ==
  /\ ~IsNull(r.Price_Change_Pct) /\ Abs(r.Price_Change_Pct) < 10
  /\ Gt(r.Volume_Zscore, 20) /\ Gt(r.Volatility, 18)

\* the label after the three assignments, each overwriting the one before
Behavior(r) ==
  IF overtrade_mask(r) THEN "Overconfidence"
  ELSE IF fomo_mask(r) THEN "FOMO Buying"
  ELSE IF panic_mask(r) THEN "Panic Selling"
  ELSE "Normal"

\* 100 * the confidence of a matched rule: x/10 + Volume_Zscore/5 + Volatility/10
panic_score(r) == Abs(r.Price_Change_Pct) + 2 * r.Volume_Zscore + r.Volatility
fomo_score(r) == r.Price_Change_Pct + 2 * r.Volume_Zscore + r.Volatility
overtrade_score(r) == 2 * r.Volume_Zscore + r.Volatility

\* 100 * Confidence_Score before normalisation, the later assignment winning
raw_confidence(r) ==
  IF overtrade_mask(r) THEN overtrade_score(r)
  ELSE IF fomo_mask(r) THEN fomo_score(r)
  ELSE IF panic_mask(r) THEN panic_score(r)
  ELSE 0

MaxOf(S) == CHOOSE m \in S : \A x \in S : x <= m

\* a classifier that leaves the raw scores as they are
detect_investor_behavior_raw(rows) ==
  [i \in Idx(rows) |->
     [Behavior |-> Behavior(rows[i]),
      Confidence_Score |-> Frac(raw_confidence(rows[i]), 100)]]

\* analyze_from_file.detect_investor_behavior: scores divided by their maximum
detect_investor_behavior(rows) ==
  LET raw == [i \in Idx(rows) |-> raw_confidence(rows[i])]
      top == IF rows = <<>> THEN 0 ELSE MaxOf({raw[i] : i \in Idx(rows)})
  IN [i \in Idx(rows) |->
        [Behavior |-> Behavior(rows[i]),
         Confidence_Score |-> IF top > 0 THEN Frac(raw[i] * 100, top)
                              ELSE Frac(raw[i], 100)]]

\* a clip that lets every score through
clip_none(x) == x

\* Series.clip(0, 1) * 100 on a score given as hundredths
clip(x) == IF x < 0 THEN 0 ELSE IF x > 100 THEN 100 ELSE x

\* app.detect_behavior: each rule's score clipped to [0, 1], times 100
detect_behavior(rows) ==
  LET panic(i) == IF panic_mask(rows[i]) THEN clip(panic_score(rows[i])) ELSE 0
      fomo(i) == IF fomo_mask(rows[i]) THEN clip(fomo_score(rows[i])) ELSE panic(i)
      over(i) == IF overtrade_mask(rows[i]) THEN clip(overtrade_score(rows[i])) ELSE fomo(i)
  IN [i \in Idx(rows) |->
        [Behavior |-> Behavior(rows[i]), Confidence_Score |-> Frac(over(i), 1)]]

\* main.detect_investor_behavior: the three masks, labels only
main_detect_investor_behavior(rows) ==
  [i \in Idx(rows) |-> [Behavior |-> Behavior(rows[i])]]

\* yfinance_main: PANIC_PRICE_THRESHOLD = -2.5 and the mask tests
\* Price_Change_Pct < -PANIC_PRICE_THRESHOLD, that is < 2.5
yfinance_panic_mask(r) ==
  Lt(r.Price_Change_Pct, 25) /\ Gt(r.Volume_Zscore, 15) /\ Gt(r.Volatility, 20)

\* yfinance_main.detect_investor_behavior: labels only, later masks overwrite
yfinance_detect_investor_behavior(rows) ==
  [i \in Idx(rows) |->
     [Behavior |-> IF overtrade_mask(rows[i]) THEN "Overconfidence"
                   ELSE IF fomo_mask(rows[i]) THEN "FOMO Buying"
                   ELSE IF yfinance_panic_mask(rows[i]) THEN "Panic Selling"
                   ELSE "Normal"]]

\* the feature rows the classifiers are tried on
MaxFeatureRows == 2
PctValues == {NaN, -80, 0, 30}
ZscoreValues == {0, 16, 42}
VolatilityValues == {NaN, 16, 19, 21}

\* the row of the classification scenario and rows that sit on a threshold
ScenarioRows ==
  {[Price_Change_Pct |-> -30, Volume_Zscore |-> 20, Volatility |-> 25],
   [Price_Change_Pct |-> -25, Volume_Zscore |-> 16, Volatility |-> 21],
   [Price_Change_Pct |-> 25, Volume_Zscore |-> 16, Volatility |-> 19],
   [Price_Change_Pct |-> 10, Volume_Zscore |-> 42, Volatility |-> 21]}

FeatureRows ==
  [Price_Change_Pct : PctValues, Volume_Zscore : ZscoreValues, Volatility : VolatilityValues]
  \cup ScenarioRows

FeatureInputs == UNION {[1..n -> FeatureRows] : n \in 1..MaxFeatureRows}

\* ------------------------------------------------------ feature engineering
\* The engineered columns are held in tenths. Price_Change_Pct is exact on the
\* series below; Volume_Zscore and Volatility are rounded away from zero to the
\* next tenth, which keeps their sign, their being zero and every comparison
\* x > t of the classifier (t a whole number of tenths) as they are.
Inf == 1000000        \* the result of dividing a non-zero number by zero

\* the least k in lo..hi with k * k * den >= num: the square root of num / den
\* rounded up
RECURSIVE CeilRoot(_, _, _, _)
CeilRoot(lo, hi, num, den) ==
  IF lo >= hi THEN lo
  ELSE LET mid == (lo + hi) \div 2
       IN IF mid * mid >= (num + den - 1) \div den THEN CeilRoot(lo, mid, num, den)
          ELSE CeilRoot(mid + 1, hi, num, den)

RootBound == 4096

\* Series.pct_change() * 100 at row i
pct_change(rows, i) ==
  IF i = 1 \/ IsNull(rows[i].Close) \/ IsNull(rows[i - 1].Close) THEN NaN
  ELSE IF rows[i - 1].Close = 0
       THEN IF rows[i].Close = 0 THEN NaN ELSE IF rows[i].Close > 0 THEN Inf ELSE -Inf
  ELSE ((rows[i].Close - rows[i - 1].Close) * 1000) \div rows[i - 1].Close

\* the defined cells of the window of a rolling(window, min_periods=1) that
\* ends at i: how many, their sum, the sum of their squares
rolling_stats(xs, i, window) ==
  LET lo == IF i > window THEN i - window + 1 ELSE 1
      w == SubSeq(xs, lo, i)
      valid == Filter(w, [j \in Idx(w) |-> ~IsNull(w[j])])
  IN [count |-> Len(valid), sum |-> SumInts(valid),
      sumsq |-> SumInts([j \in Idx(valid) |-> valid[j] * valid[j]])]

\* a rolling deviation that is 0 on a single sample
rolling_std_of_population(xs, i, window) ==
  LET st == rolling_stats(xs, i, window)
  IN IF st.count < 1 THEN NaN
     ELSE CeilRoot(0, RootBound, st.count * st.sumsq - st.sum * st.sum,
                   st.count * st.count)

\* rolling(window, min_periods=1).std() at i: the sample deviation, undefined
\* on fewer than two defined cells
rolling_std(xs, i, window) ==
  LET st == rolling_stats(xs, i, window)
  IN IF st.count < 2 THEN NaN
     ELSE CeilRoot(0, RootBound, st.count * st.sumsq - st.sum * st.sum,
                   st.count * (st.count - 1))

\* (Volume - Volume_Mean) / Volume_Std at row i, line 43
Volume_Zscore(rows, i) ==
  LET v == [j \in Idx(rows) |-> rows[j].Volume]
      st == rolling_stats(v, i, 20)
      n == st.count
      d == n * v[i] - st.sum
      ss == n * st.sumsq - st.sum * st.sum
  IN IF IsNull(v[i]) \/ n < 2 THEN NaN
     ELSE IF ss = 0 THEN IF d = 0 THEN NaN ELSE IF d > 0 THEN Inf ELSE -Inf
     ELSE IF d >= 0 THEN CeilRoot(0, RootBound, 100 * d * d * (n - 1), n * ss)
     ELSE -CeilRoot(0, RootBound, 100 * d * d * (n - 1), n * ss)

\* (Close - Low) / (High - Low) * 100, line 56
Price_Position(r) ==
  LET n == r.Close - r.Low
      d == r.High - r.Low
  IN IF d = 0 THEN IF n = 0 THEN NaN ELSE IF n > 0 THEN Inf ELSE -Inf
     ELSE (1000 * n) \div d

\* Series.fillna(v): only a missing cell is replaced
fillna(x, v) == IF IsNull(x) THEN v ELSE x

\* df[col].fillna(v, inplace=True), lines 44 and 57: the fill is applied to the
\* Series that df[col] returns. A pandas without Copy-on-Write hands out the
\* column itself, so df is filled (updates); with Copy-on-Write, the default
\* from pandas 3.0, the Series is a copy and df keeps its missing cell. The
\* repository pins no pandas version.
fillna_inplace(x, v, updates) == IF updates THEN fillna(x, v) ELSE x

\* engineer_features: the columns the classifier reads, and Price_Position
engineer_features(rows, updates) ==
  LET pct == [i \in Idx(rows) |-> pct_change(rows, i)]
  IN [i \in Idx(rows) |->
        [Price_Change_Pct |-> pct[i],
         Volume_Zscore |-> fillna_inplace(Volume_Zscore(rows, i), 0, updates),
         Volatility |-> rolling_std(pct, i, 7),
         Price_Position |-> fillna_inplace(Price_Position(rows[i]), 500, updates)]]

\* the price series features are engineered from: closes that halve or double,
\* quiet and busy days, and days whose High equals their Low
MaxPriceRows == 5
MaxPriceDefects == 2
PriceKinds == {"ok", "low", "high", "busy", "busylow", "busyhigh", "flat", "flat_off"}

MakePriceRow(i, k) ==
  LET close == CASE k \in {"low", "busylow"} -> 10
                 [] k \in {"high", "busyhigh"} -> 40
                 [] OTHER -> 20
  IN [idx |-> i - 1, Date |-> i, Open |-> close,
      High |-> CASE k = "flat" -> close [] k = "flat_off" -> close - 2
                 [] OTHER -> close + 6,
      Low |-> IF k = "flat" THEN close ELSE close - 2,
      Close |-> close,
      Volume |-> IF k \in {"busy", "busylow", "busyhigh"} THEN 50 ELSE 10]

PriceSeries(maxRows, maxDefects) ==
  UNION {UNION {{[i \in 1..n |-> IF i \in at THEN MakePriceRow(i, ks[i])
                                  ELSE MakePriceRow(i, "ok")] :
                   ks \in [at -> PriceKinds \ {"ok"}]} :
                at \in {a \in SUBSET (1..n) : Cardinality(a) <= maxDefects}} :
         n \in 1..maxRows}

\* -------------------------------------------------------------------- state
VARIABLES
  caller,            \* the function that owns the cleaner now in use
  pc,                \* position of the run: idle, a stage of clean_pipeline, returned,
                     \* raised (an exception left clean_pipeline), done
  columns,           \* df.columns
  df,                \* the rows of the dataset the pipeline works on
  entry,             \* columns, rows and report when clean_pipeline was entered
  flag,              \* remove_outliers_flag
  report,            \* cleaner.cleaning_report
  outlier_indices,   \* what detect_outliers returned
  issues,            \* what validate_price_logic returned
  result,            \* what clean_pipeline returned: "none" (running), "df", "None"
  outcome,           \* what the caller ended with
  fileNo,            \* files of the batch given to the cleaner so far
  processed_count,   \* processed_count of batch_process
  memo,              \* the first file of the batch: its input, output and report
  trace,             \* the stages of clean_pipeline that ran, in order
  classifier,        \* the classifier that ran: none, analyze_from_file, app
  features,          \* the feature rows given to the classifier
  classified         \* Behavior and Confidence_Score of these rows

pipeVars == <<caller, pc, columns, df, entry, flag, report, outlier_indices, issues,
              result, outcome, fileNo, processed_count, memo, trace>>
clsVars == <<classifier, features, classified>>
vars == <<pipeVars, clsVars>>

NoEntry == [columns |-> <<>>, rows |-> <<>>, report |-> InitReport]
NoMemo == [set |-> FALSE, columns |-> <<>>, rows |-> <<>>, df |-> <<>>,
           report |-> InitReport, result |-> "none"]

PipeInit ==
  /\ caller = "none"
  /\ pc = "idle"
  /\ columns = <<>>
  /\ df = <<>>
  /\ entry = NoEntry
  /\ flag = TRUE
  /\ report = InitReport
  /\ outlier_indices = {}
  /\ issues = {}
  /\ result = "none"
  /\ outcome = "none"
  /\ fileNo = 0
  /\ processed_count = 0
  /\ memo = NoMemo
  /\ trace = <<>>

Init ==
  /\ PipeInit
  /\ classifier = "none"
  /\ features = <<>>
  /\ classified = <<>>

\* clean_pipeline is entered by caller c with dataset x on a cleaner whose report is rep
Enter(c, x, rep, fl) ==
  /\ caller' = c
  /\ pc' = "validate"
  /\ columns' = x.columns
  /\ df' = x.rows
  /\ entry' = [columns |-> x.columns, rows |-> x.rows, report |-> rep]
  /\ flag' = fl
  /\ report' = rep
  /\ outlier_indices' = {}
  /\ issues' = {}
  /\ result' = "none"
  /\ outcome' = "none"
  /\ trace' = <<>>
  /\ UNCHANGED clsVars

\* analyze_from_file, lines 514-521: new cleaner, load_data, clean_pipeline
AnalyzeFromFile ==
  /\ pc = "idle"
  /\ \E x \in FreshInputs :
       Enter("analyze_from_file", x, load_data(InitReport, Len(x.rows)), TRUE)
  /\ UNCHANGED <<fileNo, processed_count, memo>>

\* quick_clean, lines 475-483
QuickClean ==
  /\ pc = "idle"
  /\ \E x \in FreshInputs :
       Enter("quick_clean", x, load_data(InitReport, Len(x.rows)), TRUE)
  /\ UNCHANGED <<fileNo, processed_count, memo>>

\* main_with_cleaning, option 1: downloaded data, new cleaner, no load_data
MainWithCleaning ==
  /\ pc = "idle"
  /\ \E x \in DownloadInputs : Enter("main_with_cleaning", x, InitReport, FALSE)
  /\ UNCHANGED <<fileNo, processed_count, memo>>

\* batch_process, first file: the caller's new cleaner
BatchFirstFile ==
  /\ pc = "idle"
  /\ \E x \in BatchInputs :
       Enter("batch_process",
             [columns |-> convert_to_standard_format(x.columns), rows |-> x.rows],
             InitReport, TRUE)
  /\ fileNo' = 1
  /\ UNCHANGED <<processed_count, memo>>

\* batch_process, a later file: the same cleaner
BatchNextFile ==
  /\ pc = "done"
  /\ caller = "batch_process"
  /\ outcome # "exception"
  /\ fileNo < MaxFiles
  /\ \E x \in BatchInputs :
       Enter("batch_process",
             [columns |-> convert_to_standard_format(x.columns), rows |-> x.rows],
             report, TRUE)
  /\ fileNo' = fileNo + 1
  /\ UNCHANGED <<processed_count, memo>>

\* ----------------------------------------------------- clean_pipeline stages
Stage(name, next) ==
  /\ pc' = next
  /\ trace' = Append(trace, name)
  /\ UNCHANGED <<caller, entry, flag, outcome, fileNo, processed_count, memo>>
  /\ UNCHANGED clsVars

\* Step 1, lines 404-407
Validate ==
  /\ pc = "validate"
  /\ columns' = ValidateColumns(columns)
  /\ IF ValidateOk(columns)
     THEN Stage("validate_stock_data", "fix_types") /\ result' = result
     ELSE Stage("validate_stock_data", "returned") /\ result' = "None"
  /\ UNCHANGED <<df, report, outlier_indices, issues>>

\* Step 2, line 410; the conversion of a column held twice raises
FixTypes ==
  /\ pc = "fix_types"
  /\ IF duplicated_cols(columns) = {}
     THEN df' = fix_data_types(df) /\ Stage("fix_data_types", "missing")
     ELSE df' = df /\ Stage("fix_data_types", "raised")
  /\ UNCHANGED <<columns, report, outlier_indices, issues, result>>

\* Step 3, line 413
HandleMissing ==
  /\ pc = "missing"
  /\ \E r \in {handle_missing_values(df, report)} :
       df' = r.df /\ report' = r.report
  /\ Stage("handle_missing_values", "duplicates")
  /\ UNCHANGED <<columns, outlier_indices, issues, result>>

\* Step 4, line 416
HandleDuplicates ==
  /\ pc = "duplicates"
  /\ \E r \in {handle_duplicates(df, report)} :
       df' = r.df /\ report' = r.report
  /\ Stage("handle_duplicates", "detect")
  /\ UNCHANGED <<columns, outlier_indices, issues, result>>

\* Step 5, line 419
DetectOutliers ==
  /\ pc = "detect"
  /\ \E r \in {detect_outliers(df, report)} :
       outlier_indices' = r.indices /\ report' = r.report
  /\ Stage("detect_outliers", "remove")
  /\ UNCHANGED <<columns, df, issues, result>>

\* Step 5, lines 421-422
RemoveOutliers ==
  /\ pc = "remove"
  /\ IF should_remove(flag, outlier_indices)
     THEN /\ \E r \in {remove_outliers(df, outlier_indices, report)} :
               df' = r.df /\ report' = r.report
          /\ Stage("remove_outliers", "price_logic")
     ELSE /\ pc' = "price_logic"
          /\ UNCHANGED <<df, report, trace, caller, entry, flag, outcome, fileNo,
                         processed_count, memo>>
          /\ UNCHANGED clsVars
  /\ UNCHANGED <<columns, outlier_indices, issues, result>>

\* Step 6, lines 425-427
ValidatePriceLogic ==
  /\ pc = "price_logic"
  /\ issues' = validate_price_logic(df)
  /\ Stage("validate_price_logic", "sort")
  /\ UNCHANGED <<columns, df, report, outlier_indices, result>>

\* Step 7, line 430
SortByDate ==
  /\ pc = "sort"
  /\ df' = sort_by_date(df)
  /\ Stage("sort_by_date", "score")
  /\ UNCHANGED <<columns, report, outlier_indices, issues, result>>

\* lines 432-441: row count, quality score, return df
Score ==
  /\ pc = "score"
  /\ report' = finish_report(df, Len(columns), report)
  /\ result' = "df"
  /\ Stage("calculate_quality_score", "returned")
  /\ UNCHANGED <<columns, df, outlier_indices, issues>>

\* ------------------------------------------------ the callers after the run
Finish(o) ==
  /\ pc' = "done"
  /\ outcome' = o
  /\ UNCHANGED <<caller, columns, df, entry, flag, report, outlier_indices, issues,
                 result, fileNo, trace>>
  /\ UNCHANGED clsVars

\* analyze_from_file, lines 522-526 and on: None or an empty dataset is a failure
FinishAnalyzeFromFile ==
  /\ pc \in {"returned", "raised"}
  /\ caller = "analyze_from_file"
  /\ Finish(IF pc = "raised" THEN "exception"
            ELSE IF result = "None" THEN "schema_error"
            ELSE IF df = <<>> THEN "cleaning_failed"
            ELSE "dataset")
  /\ UNCHANGED <<processed_count, memo>>

\* quick_clean, lines 486-493: df_cleaned.to_csv is called whenever output_path is set
FinishQuickClean(output_path) ==
  /\ pc \in {"returned", "raised"}
  /\ caller = "quick_clean"
  /\ Finish(IF pc = "raised" THEN "exception"
            ELSE IF result = "None"
            THEN (IF output_path THEN "exception" ELSE "schema_error")
            ELSE "dataset")
  /\ UNCHANGED <<processed_count, memo>>

\* main_with_cleaning, lines 170 and 199-201
FinishMainWithCleaning ==
  /\ pc \in {"returned", "raised"}
  /\ caller = "main_with_cleaning"
  /\ Finish(IF pc = "raised" THEN "exception" ELSE IF result = "None" \/ df = <<>> THEN "no_data" ELSE "dataset")
  /\ UNCHANGED <<processed_count, memo>>

\* batch_process, lines 202-210
FinishBatchFile ==
  /\ pc \in {"returned", "raised"}
  /\ caller = "batch_process"
  /\ Finish(IF pc = "raised" THEN "exception"
            ELSE IF result = "None" THEN "skipped" ELSE "saved")
  /\ processed_count' = IF result = "df" THEN processed_count + 1 ELSE processed_count
  /\ memo' = IF fileNo = 1
             THEN [set |-> TRUE, columns |-> entry.columns, rows |-> entry.rows,
                   df |-> df, report |-> report, result |-> result]
             ELSE memo

\* the caller returns; its cleaner and dataset are dropped
Return ==
  /\ pc = "done"
  /\ caller' = "none"
  /\ pc' = "idle"
  /\ columns' = <<>>
  /\ df' = <<>>
  /\ entry' = NoEntry
  /\ flag' = TRUE
  /\ report' = InitReport
  /\ outlier_indices' = {}
  /\ issues' = {}
  /\ result' = "none"
  /\ outcome' = "none"
  /\ fileNo' = 0
  /\ processed_count' = 0
  /\ memo' = NoMemo
  /\ trace' = <<>>
  /\ UNCHANGED clsVars

Next ==
  \/ AnalyzeFromFile
  \/ QuickClean
  \/ MainWithCleaning
  \/ BatchFirstFile
  \/ BatchNextFile
  \/ Validate
  \/ FixTypes
  \/ HandleMissing
  \/ HandleDuplicates
  \/ DetectOutliers
  \/ RemoveOutliers
  \/ ValidatePriceLogic
  \/ SortByDate
  \/ Score
  \/ FinishAnalyzeFromFile
  \/ \E output_path \in BOOLEAN : FinishQuickClean(output_path)
  \/ FinishMainWithCleaning
  \/ FinishBatchFile
  \/ Return

Spec == Init /\ [][Next]_vars

\* ------------------------------------- handle_missing_values called on its own
MissingInit ==
  /\ caller = "none"
  /\ pc = "call"
  /\ columns = required_cols
  /\ df \in SeriesInputs(MaxSeriesRows)
  /\ report \in CleanerReports
  /\ entry = [columns |-> columns, rows |-> df, report |-> report]
  /\ flag = TRUE
  /\ outlier_indices = {}
  /\ issues = {}
  /\ result = "none"
  /\ outcome = "none"
  /\ fileNo = 0
  /\ processed_count = 0
  /\ memo = NoMemo
  /\ trace = <<>>
  /\ classifier = "none"
  /\ features = <<>>
  /\ classified = <<>>

\* cleaner.handle_missing_values(df, strategy)
CallHandleMissing(strategy) ==
  /\ pc = "call"
  /\ pc' = "called"
  /\ \E r \in {handle_missing(df, strategy, report)} :
       df' = r.df /\ report' = r.report
  /\ trace' = <<"handle_missing_values", strategy>>
  /\ UNCHANGED <<caller, columns, entry, flag, outlier_indices, issues, result, outcome,
                 fileNo, processed_count, memo>>
  /\ UNCHANGED clsVars

MissingNext == \E strategy \in Strategies : CallHandleMissing(strategy)

SpecMissing == MissingInit /\ [][MissingNext]_vars

\* --------------------- detect_outliers and remove_outliers called on their own
OutlierInit ==
  /\ caller = "none"
  /\ pc = "call"
  /\ columns = required_cols
  /\ df \in OutlierInputs(MaxOutlierRows, MaxOutlierDefects)
  /\ report = InitReport
  /\ entry = [columns |-> columns, rows |-> df, report |-> report]
  /\ flag = TRUE
  /\ outlier_indices = {}
  /\ issues = {}
  /\ result = "none"
  /\ outcome = "none"
  /\ fileNo = 0
  /\ processed_count = 0
  /\ memo = NoMemo
  /\ trace = <<>>
  /\ classifier = "none"
  /\ features = <<>>
  /\ classified = <<>>

\* outlier_indices = cleaner.detect_outliers(df, method)
CallDetectOutliers(method) ==
  /\ pc = "call"
  /\ pc' = "called"
  /\ \E r \in {detect_outliers_by(df, method, report)} :
       outlier_indices' = r.indices /\ report' = r.report
  /\ trace' = <<"detect_outliers", method>>
  /\ UNCHANGED <<caller, columns, df, entry, flag, issues, result, outcome,
                 fileNo, processed_count, memo>>
  /\ UNCHANGED clsVars

\* df = cleaner.remove_outliers(df, outlier_indices)
CallRemoveOutliers ==
  /\ pc = "called"
  /\ pc' = "removed"
  /\ \E r \in {remove_outliers(df, outlier_indices, report)} :
       df' = r.df /\ report' = r.report
  /\ trace' = trace \o <<"remove_outliers">>
  /\ UNCHANGED <<caller, columns, entry, flag, outlier_indices, issues, result, outcome,
                 fileNo, processed_count, memo>>
  /\ UNCHANGED clsVars

OutlierNext ==
  \/ \E method \in Methods : CallDetectOutliers(method)
  \/ CallRemoveOutliers

SpecOutliers == OutlierInit /\ [][OutlierNext]_vars

\* ------------------------------------------------- the classifiers on their own
ClassifyInit ==
  /\ caller = "none"
  /\ pc = "idle"
  /\ columns = <<>>
  /\ \/ df = <<>> /\ features \in FeatureInputs
     \/ df \in PriceSeries(MaxPriceRows, MaxPriceDefects) /\ features = <<>>
  /\ entry = NoEntry
  /\ flag = TRUE
  /\ report = InitReport
  /\ outlier_indices = {}
  /\ issues = {}
  /\ result = "none"
  /\ outcome = "none"
  /\ fileNo = 0
  /\ processed_count = 0
  /\ memo = NoMemo
  /\ trace = <<>>
  /\ classifier = "none"
  /\ classified = <<>>

\* df = engineer_features(df), analyze_from_file.py line 533
EngineerFeatures ==
  /\ classifier = "none"
  /\ features = <<>>
  /\ \E updates \in BOOLEAN : features' = engineer_features(df, updates)
  /\ UNCHANGED <<classifier, classified, pipeVars>>

\* analyze_from_file.detect_investor_behavior on the feature rows
DetectInvestorBehavior ==
  /\ classifier = "none"
  /\ features # <<>>
  /\ classifier' = "analyze_from_file"
  /\ classified' = detect_investor_behavior(features)
  /\ UNCHANGED <<features, pipeVars>>

\* app.detect_behavior on the feature rows
DetectBehavior ==
  /\ classifier = "none"
  /\ features # <<>>
  /\ classifier' = "app"
  /\ classified' = detect_behavior(features)
  /\ UNCHANGED <<features, pipeVars>>

\* main.detect_investor_behavior on the feature rows
MainDetectInvestorBehavior ==
  /\ classifier = "none"
  /\ features # <<>>
  /\ classifier' = "main"
  /\ classified' = main_detect_investor_behavior(features)
  /\ UNCHANGED <<features, pipeVars>>

\* yfinance_main.detect_investor_behavior on the feature rows
YfinanceDetectInvestorBehavior ==
  /\ classifier = "none"
  /\ features # <<>>
  /\ classifier' = "yfinance_main"
  /\ classified' = yfinance_detect_investor_behavior(features)
  /\ UNCHANGED <<features, pipeVars>>

ClassifyNext ==
  \/ EngineerFeatures
  \/ DetectInvestorBehavior
  \/ DetectBehavior
  \/ MainDetectInvestorBehavior
  \/ YfinanceDetectInvestorBehavior

SpecClassify == ClassifyInit /\ [][ClassifyNext]_vars

\* =================================================================== claims
Parsable(c) == c # BadText /\ c # NaN

Running == pc \notin {"idle", "done"}

\* C1: the dataset clean_pipeline returns has no missing Date, pairwise distinct
\* Dates, and Date[i] < Date[i+1] for all adjacent rows.
C1_DatesStrictlyAscending ==
  result = "df" =>
    /\ \A i \in Idx(df) : ~IsNull(df[i].Date)
    /\ \A i, j \in Idx(df) : i # j => df[i].Date # df[j].Date
    /\ \A i \in 1..(Len(df) - 1) : df[i].Date < df[i + 1].Date

\* a returned dataset of two rows or more whose input was out of order and had
\* two rows of the same Date
C1_Witness ==
  /\ result = "df"
  /\ Len(df) >= 2
  /\ \E i, j \in Idx(entry.rows) :
       /\ i < j
       /\ Parsable(entry.rows[i].Date) /\ Parsable(entry.rows[j].Date)
       /\ entry.rows[i].Date > entry.rows[j].Date
  /\ \E i, j \in Idx(entry.rows) : i < j /\ entry.rows[i].Date = entry.rows[j].Date

\* the score of the formula: 100 - 30*(handled / original cells)
\* - 20*(duplicates removed / original rows) - 15*(outliers removed / original rows),
\* clamped to [0, 100]
FormulaScore(n, ncols, rep) ==
  LET num == 100 * n * ncols - MissingWeight * rep.missing_values_handled
             - DuplicateWeight * rep.duplicates_removed * ncols
             - OutlierWeight * rep.outliers_removed * ncols
  IN IF num < 0 THEN Frac(0, 1) ELSE Frac(num, n * ncols)

\* C2: after a run of a new cleaner on a loaded file of n > 0 rows, the quality
\* score is the score of the formula, the missing fraction being the missing
\* cells handled over the original cell count.
C2_ScoreFollowsFormula ==
  (/\ result = "df"
   /\ entry.rows # <<>>
   /\ entry.report = load_data(InitReport, Len(entry.rows)))
  => report.data_quality_score = FormulaScore(Len(entry.rows), Len(entry.columns), report)

\* C3: after every run, the report is the one a newly constructed cleaner (with
\* the same total_rows_original) produces for that run's dataset alone.
C3_ReportOfAFreshCleaner ==
  result # "none" =>
    report = clean_pipeline(entry.columns, entry.rows,
                            load_data(InitReport, entry.report.total_rows_original),
                            flag).report

\* C4: two runs on the same dataset with the same flag end with the same
\* dataset and the same report (here: a file of a batch and the first file).
C4_SameInputSameOutcome ==
  (/\ memo.set
   /\ result # "none"
   /\ entry.columns = memo.columns
   /\ entry.rows = memo.rows)
  => (result = memo.result /\ df = memo.df /\ report = memo.report)

\* C5: the quality score of the report is a number in [0, 100], in every state.
C5_ScoreWithinBounds ==
  /\ ~report.data_quality_score.nan
  /\ report.data_quality_score.num >= 0
  /\ report.data_quality_score.num <= 100 * report.data_quality_score.den

\* a finished run whose cleaned dataset is empty, on a cleaner that never loaded
\* a file and carries more removed duplicates than original rows
C5_Witness ==
  /\ result = "df"
  /\ df = <<>>
  /\ entry.rows # <<>>
  /\ report.total_rows_original = 0
  /\ report.duplicates_removed > report.total_rows_original

\* C6: every Confidence_Score either classifier gives is a number in [0, 100].
C6_ConfidenceWithinBounds ==
  classifier \in {"analyze_from_file", "app"} =>
    \A i \in Idx(classified) :
      /\ ~classified[i].Confidence_Score.nan
      /\ classified[i].Confidence_Score.num >= 0
      /\ classified[i].Confidence_Score.num <= 100 * classified[i].Confidence_Score.den

\* the HTTP handler's classifier on a row whose rule score exceeds 1
C6_Witness ==
  /\ classifier = "app"
  /\ \E i \in Idx(features) :
       /\ panic_mask(features[i])
       /\ panic_score(features[i]) > 100
       /\ classified[i].Behavior = "Panic Selling"

\* C7: no step of a run gives the dataset more rows than it had, and the
\* dataset never has more rows than the one clean_pipeline was given.
C7_RowCountNeverIncreases ==
  [][Running => (Len(df') <= Len(df) /\ Len(df') <= Len(entry.rows))]_vars

\* a returned dataset that lost a row to the missing-value stage (an unparsable
\* Date) and a row to de-duplication
C7_Witness ==
  /\ result = "df"
  /\ \E i \in Idx(entry.rows) : entry.rows[i].Date = BadText
  /\ entry.report.duplicates_removed = 0 /\ report.duplicates_removed >= 1
  /\ Len(df) + 2 = Len(entry.rows)

\* C8: analyze_from_file and quick_clean end in one of two ways: a dataset (the
\* pipeline returned one), or a schema error (a required column is absent).
C8_DatasetOrSchemaError ==
  (pc = "done" /\ caller \in {"analyze_from_file", "quick_clean"}) =>
    \/ outcome = "dataset" /\ result = "df"
    \/ outcome = "schema_error" /\ ~ValidateOk(entry.columns)

\* C9: when a required column is absent after capitalizing the names, the run
\* past validation has returned None, only the validation ran, the rows and
\* the report are those clean_pipeline was entered with.
C9_SchemaFailureAborts ==
  (pc \notin {"idle", "validate"} /\ missing_cols(CapitalizeAll(entry.columns)) # {}) =>
    /\ pc \in {"returned", "done"}
    /\ result = "None"
    /\ trace = <<"validate_stock_data">>
    /\ df = entry.rows
    /\ report = entry.report

\* an aborted run on a dataset that has a row
C9_Witness ==
  /\ pc = "returned"
  /\ result = "None"
  /\ entry.rows # <<>>
  /\ missing_cols(CapitalizeAll(entry.columns)) # {}

\* name n is among cols under some letter-casing
InSomeCasing(n, cols) == \E i \in Idx(cols) : LowerName(cols[i]) = LowerName(n)

\* C10: past validation, a dataset with the six required names under some
\* casing has passed; the names are untouched when the six match literally,
\* and are the capitalized names otherwise.
C10_CaseInsensitiveValidation ==
  pc \notin {"idle", "validate"} =>
    /\ (\A n \in Range(required_cols) : InSomeCasing(n, entry.columns)) => result # "None"
    /\ missing_cols(entry.columns) = {} => columns = entry.columns
    /\ missing_cols(entry.columns) # {} => columns = CapitalizeAll(entry.columns)

\* a run that passed validation with upper-case names, renamed
C10_Witness ==
  /\ result = "df"
  /\ entry.columns = [i \in ReqIdx |-> UpperName(required_cols[i])]
  /\ columns = required_cols

\* C11: on a dataset that passed validation the type normalizer does not raise;
\* after it every unparsable cell is missing, every other cell has its value
\* and the row count is the one before.
C11_TypeNormalizerTotal ==
  (pc \notin {"idle", "validate"} /\ ValidateOk(entry.columns)) =>
    /\ pc # "raised"
    /\ pc = "missing" =>
         /\ Len(df) = Len(entry.rows)
         /\ \A i \in Idx(df) : \A f \in Fields :
              df[i][f] = IF entry.rows[i][f] = BadText THEN NaN ELSE entry.rows[i][f]

\* C12: whatever the strategy, the dataset handle_missing_values returns has no
\* missing cell.
C12_NoMissingValueLeft ==
  pc = "called" => \A i \in Idx(df) : ~HasNull(df[i])

\* a call with strategy interpolate or mean that returned a row repaired by the
\* strategy and dropped a row the strategy could not repair
C12_Witness ==
  /\ pc = "called"
  /\ trace[2] \in {"interpolate", "mean"}
  /\ df # <<>>
  /\ Len(df) < Len(entry.rows)
  /\ \E i \in Idx(df) : HasNull(entry.rows[df[i].idx + 1])

\* the entry row a returned row comes from (index labels are entry positions - 1)
Origin(r) == entry.rows[r.idx + 1]

\* C13: under forward_fill every returned row has, in each price column, its own
\* value or, where that was missing, the value of the nearest preceding row
\* whose cell is not missing; a missing Volume is 0; every other cell is unchanged.
C13_ForwardFillValues ==
  (pc = "called" /\ trace[2] = "forward_fill") =>
    \A i \in Idx(df) : \A f \in Fields :
      LET k == df[i].idx + 1
          before == ValidBefore(entry.rows, f, k)
      IN IF ~IsNull(entry.rows[k][f]) THEN df[i][f] = entry.rows[k][f]
         ELSE IF f = "Volume" THEN df[i][f] = 0
         ELSE /\ f \in price_cols
              /\ before # {}
              /\ \E p \in before :
                   /\ \A q \in before : q <= p
                   /\ df[i][f] = entry.rows[p][f]

\* a forward_fill call that returned a row whose Close was missing in two
\* consecutive rows and whose Volume was missing
C13_Witness ==
  /\ pc = "called" /\ trace[2] = "forward_fill"
  /\ \E i \in Idx(df) :
       /\ df[i].idx >= 2
       /\ IsNull(Origin(df[i]).Close) /\ IsNull(Origin(df[i]).Volume)
       /\ IsNull(entry.rows[df[i].idx].Close)
       /\ df[i].Volume = 0

\* the rows earlier in time than row k that have a value in column f
EarlierDated(rows, f, k) ==
  {j \in Idx(rows) : /\ ~IsNull(rows[j].Date)
                     /\ rows[j].Date < rows[k].Date
                     /\ ~IsNull(rows[j][f])}

\* C14: after the missing-value stage of a run, a price cell that was missing
\* holds the value of the latest earlier-dated row that has one in that column.
C14_FillInDateOrder ==
  pc = "duplicates" =>
    LET typed == fix_data_types(entry.rows)
    IN \A i \in Idx(df) : \A f \in price_cols :
         LET k == df[i].idx + 1
             earlier == EarlierDated(typed, f, k)
         IN IsNull(typed[k][f]) =>
              /\ earlier # {}
              /\ \E p \in earlier :
                   /\ \A q \in earlier : typed[q].Date <= typed[p].Date
                   /\ df[i][f] = typed[p][f]

\* C15: when the dataset given to the missing-value stage has no missing cell,
\* the stage leaves it as it is and the report shows missing_values_found = 0
\* and missing_values_handled = 0.
C15_NoMissingReportsZero ==
  (pc = "duplicates" /\ NullCount(fix_data_types(entry.rows)) = 0) =>
    /\ df = fix_data_types(entry.rows)
    /\ report.missing_values_found = 0
    /\ report.missing_values_handled = 0

\* C16: the duplicate stage keeps exactly the rows that are the first of their
\* Date, unchanged and in their order, and afterwards duplicates_found and
\* duplicates_removed both are the number of rows it discarded.
C16_KeepsFirstOfEachDate ==
  [][pc = "duplicates" =>
       /\ \A i \in Idx(df) :
            (\A j \in 1..(i - 1) : df[j].Date # df[i].Date) <=> df[i] \in Range(df')
       /\ \A a \in Idx(df') : df'[a] \in Range(df)
       /\ \A a, b \in Idx(df') : a < b => df'[a].idx < df'[b].idx
       /\ report'.duplicates_found = Len(df) - Len(df')
       /\ report'.duplicates_removed = Len(df) - Len(df')]_vars

\* the positions of column f the iqr rule flags: the value lies outside
\* [Q1 - k IQR, Q3 + k IQR], Q1 and Q3 the 25th and 75th percentiles of the
\* column (all quantities times 4)
IqrRule(rows, f) ==
  IF rows = <<>> THEN {}
  ELSE UNION {{k \in Idx(rows) : \/ 4 * rows[k][f] < q[1] - threshold * (q[2] - q[1])
                                 \/ 4 * rows[k][f] > q[2] + threshold * (q[2] - q[1])} :
              q \in {<<Quantile4(s, 1), Quantile4(s, 3)>> :
                       s \in {SortInts(ColumnValues(rows, f))}}}

\* the positions of column f the zscore rule flags: |v - mean| / stddev > k,
\* squared and cleared of fractions (stddev the sample deviation)
ZscoreRule(rows, f) ==
  LET vals == ColumnValues(rows, f)
      n == Len(vals)
      S == SumInts(vals)
  IN UNION {{k \in Idx(rows) :
               (n - 1) * (n * rows[k][f] - S) * (n * rows[k][f] - S)
                 > threshold * threshold * SS} :
            SS \in {SumInts([i \in Idx(vals) |-> (n * vals[i] - S) * (n * vals[i] - S)])}}

\* the positions each numeric column flags under the method
RuleFlags(method, rows) ==
  [f \in numeric_cols |-> IF method = "iqr" THEN IqrRule(rows, f) ELSE ZscoreRule(rows, f)]

\* C17: detect_outliers returns a row exactly when the rule of the method flags
\* one of its values; on the example series with iqr only row index 4 is
\* returned, and removing it leaves 9 rows.
C17_FlaggedByTheRule ==
  /\ pc = "called" =>
       /\ \A fl \in {RuleFlags(trace[2], df)} :
            \A k \in Idx(df) :
              (df[k].idx \in outlier_indices) <=> \E f \in numeric_cols : k \in fl[f]
       /\ (df = ExampleSeries /\ trace[2] = "iqr") => outlier_indices = {4}
  /\ (pc = "removed" /\ entry.rows = ExampleSeries /\ trace[2] = "iqr") =>
       /\ Len(df) = 9
       /\ \A i \in Idx(df) : df[i].idx # 4

\* the zscore method flagged a row of an eleven-row series
C17_Witness ==
  /\ pc = "called"
  /\ trace[2] = "zscore"
  /\ Len(df) = 11
  /\ outlier_indices # {}

\* C18: the rows detect_outliers returns are those at least one of Open, High,
\* Low, Close, Volume flags, each once, and outliers_detected is their number.
C18_UnionOverColumns ==
  pc = "called" =>
    \A fl \in {RuleFlags(trace[2], df)} :
      /\ outlier_indices = {df[k].idx : k \in UNION {fl[f] : f \in numeric_cols}}
      /\ report.outliers_detected =
           Cardinality({k \in Idx(df) : \E f \in numeric_cols : k \in fl[f]})

\* two rows returned, one flagged by High and by Volume, one by High alone
C18_Witness ==
  /\ pc = "called"
  /\ report.outliers_detected = 2
  /\ \E fl \in {RuleFlags(trace[2], df)} :
       \E a, b \in Idx(df) :
         /\ a # b
         /\ a \in fl["High"] /\ a \in fl["Volume"]
         /\ b \in fl["High"] /\ b \notin fl["Volume"]

\* C19: every run that returns a dataset ran the detection, which sets
\* outliers_detected to the number of flagged rows and removes nothing; the
\* next step removes exactly the flagged rows and sets outliers_removed to
\* outliers_detected when the flag is set and a row is flagged, and otherwise
\* leaves the dataset and outliers_removed as they are.
C19_DetectAlwaysRemoveOnRequest ==
  [][/\ result' = "df" => \E i \in Idx(trace') : trace'[i] = "detect_outliers"
     /\ pc = "detect" =>
          /\ report'.outliers_detected = Cardinality(outlier_indices')
          /\ df' = df
          /\ report'.outliers_removed = report.outliers_removed
     /\ pc = "remove" =>
          IF flag /\ outlier_indices # {}
          THEN /\ Range(df') = {r \in Range(df) : r.idx \notin outlier_indices}
               /\ Len(df') = Len(df) - Cardinality(outlier_indices)
               /\ report'.outliers_removed = report.outliers_detected
          ELSE /\ df' = df
               /\ report'.outliers_removed = report.outliers_removed]_vars

\* a run without the flag that flagged a row and returned every row
C19_Witness ==
  /\ result = "df"
  /\ ~flag
  /\ report.outliers_detected >= 1
  /\ report.outliers_removed = 0
  /\ Len(df) = Len(entry.rows)

\* the stages of clean_pipeline in their order; remove_outliers runs on request
StageOrder ==
  <<"validate_stock_data", "fix_data_types", "handle_missing_values", "handle_duplicates",
    "detect_outliers", "validate_price_logic", "sort_by_date", "calculate_quality_score">>

WithoutRemoval(t) == Filter(t, [i \in Idx(t) |-> t[i] # "remove_outliers"])

C21_PriceLogicOnlyReports ==
  /\ [](pc = "returned" /\ issues # {} => result = "df")
  /\ [][pc = "price_logic" =>
         LET HighBelowLow == \E i \in Idx(df) : df[i].High < df[i].Low
             CloseOutside == \E i \in Idx(df) :
                                df[i].Close > df[i].High \/ df[i].Close < df[i].Low
             OpenOutside == \E i \in Idx(df) :
                               df[i].Open > df[i].High \/ df[i].Open < df[i].Low
             NegativeVolume == \E i \in Idx(df) : df[i].Volume < 0
         IN /\ df' = df /\ report' = report /\ columns' = columns
            /\ pc' = "sort"
            /\ (issues' = {}) <=>
                 ~(HighBelowLow \/ CloseOutside \/ OpenOutside \/ NegativeVolume)
            /\ ("High < Low" \in issues') <=> HighBelowLow
            /\ ("Close outside High-Low range" \in issues') <=> CloseOutside
            /\ ("Open outside High-Low range" \in issues') <=> OpenOutside
            /\ ("Negative volume" \in issues') <=> NegativeVolume
            /\ Cardinality(issues') <= 4]_vars

\* a run that found a close above the high and nothing else returned its rows sorted
C21_Witness ==
  /\ pc = "returned" /\ result = "df"
  /\ issues = {"Close outside High-Low range"}
  /\ Len(df) = 2
  /\ trace[Len(trace) - 1] = "sort_by_date"

\* C22: the file-pipeline classifier gives every row one of the four labels:
\* Normal when no rule matches, otherwise the label and the raw confidence of
\* the last matching rule in the order Panic, FOMO, Overconfidence, every
\* threshold strict; a price change of -3.0 with z-score 2.0 and volatility 2.5
\* is Panic Selling with raw confidence 0.95.
C22_LastMatchingRule ==
  classifier = "analyze_from_file" =>
    \A i \in Idx(features) :
      LET r == features[i]
          p == r.Price_Change_Pct
          z == r.Volume_Zscore
          v == r.Volatility
          known == p # NaN /\ z # NaN /\ v # NaN
          Panic == known /\ p < -25 /\ z > 15 /\ v > 20
          Fomo == known /\ p > 25 /\ z > 15 /\ v > 15
          Over == known /\ p > -10 /\ p < 10 /\ z > 20 /\ v > 18
          label == IF Over THEN "Overconfidence"
                   ELSE IF Fomo THEN "FOMO Buying"
                   ELSE IF Panic THEN "Panic Selling" ELSE "Normal"
          raw == IF Over THEN 2 * z + v
                 ELSE IF Fomo THEN p + 2 * z + v
                 ELSE IF Panic THEN (0 - p) + 2 * z + v ELSE 0
      IN /\ classified[i].Behavior
              \in {"Normal", "Panic Selling", "FOMO Buying", "Overconfidence"}
         /\ classified[i].Behavior = label
         /\ raw_confidence(r) = raw
         /\ r = [Price_Change_Pct |-> -30, Volume_Zscore |-> 20, Volatility |-> 25]
              => label = "Panic Selling" /\ raw = 95

\* the scenario row classified on its own
C22_Witness ==
  /\ classifier = "analyze_from_file"
  /\ features = <<[Price_Change_Pct |-> -30, Volume_Zscore |-> 20, Volatility |-> 25]>>
  /\ classified[1].Behavior = "Panic Selling"
  /\ raw_confidence(features[1]) = 95

\* C23: after the normalisation of the file-pipeline classifier, if some row
\* has a raw score above 0 then every score is raw / max raw * 100 and the
\* largest score is exactly 100; a row labelled Normal has score 0, a row with
\* another label a score above 0; if no row matches a rule every score is 0.
C23_NormalisedToHundred ==
  classifier = "analyze_from_file" =>
    LET raw == [i \in Idx(features) |-> raw_confidence(features[i])]
        score == [i \in Idx(features) |-> classified[i].Confidence_Score]
        positive == \E i \in Idx(features) : raw[i] > 0
    IN /\ positive =>
            /\ \E m \in Idx(features) :
                  /\ \A i \in Idx(features) : raw[i] <= raw[m]
                  /\ \A i \in Idx(features) :
                       /\ ~score[i].nan
                       /\ score[i].num * raw[m] = raw[i] * 100 * score[i].den
                  /\ score[m] = Frac(100, 1)
            /\ \A i \in Idx(features) : ScoreLt(score[i], Frac(100, 1)) \/ score[i] = Frac(100, 1)
       /\ \A i \in Idx(features) :
            IF classified[i].Behavior = "Normal"
            THEN score[i] = Frac(0, 1)
            ELSE ScoreLt(Frac(0, 1), score[i])
       /\ (\A i \in Idx(features) : classified[i].Behavior = "Normal")
            => \A i \in Idx(features) : score[i] = Frac(0, 1)

\* two matched rows with different raw scores
C23_Witness ==
  /\ classifier = "analyze_from_file"
  /\ Len(features) = 2
  /\ classified[1].Behavior = "Panic Selling"
  /\ classified[2].Behavior = "Overconfidence"
  /\ raw_confidence(features[1]) > raw_confidence(features[2])
  /\ classified[1].Confidence_Score = Frac(100, 1)
  /\ ScoreLt(classified[2].Confidence_Score, Frac(100, 1))

\* C24: a row whose Price_Change_Pct or Volatility is undefined is labelled
\* Normal with Confidence_Score 0; Volatility is undefined in the first two
\* rows of an engineered dataset, so these two rows are Normal.
C24_UndefinedFeaturesStayNormal ==
  classifier = "analyze_from_file" =>
    /\ \A i \in Idx(features) :
         features[i].Price_Change_Pct = NaN \/ features[i].Volatility = NaN
           => /\ classified[i].Behavior = "Normal"
              /\ classified[i].Confidence_Score = Frac(0, 1)
    /\ df # <<>> =>
         \A i \in Idx(features) :
           i <= 2 => features[i].Volatility = NaN /\ classified[i].Behavior = "Normal"

\* a second row with a sharp fall stays Normal while a later fall is Panic Selling
C24_Witness ==
  /\ classifier = "analyze_from_file"
  /\ Len(df) >= 5
  /\ features[2].Price_Change_Pct < -25 /\ features[2].Price_Change_Pct # NaN
  /\ features[2].Volatility = NaN
  /\ classified[2].Behavior = "Normal"
  /\ \E i \in Idx(classified) : classified[i].Behavior = "Panic Selling"

\* C25: after feature engineering Volume_Zscore is a finite number in every
\* row, and it is 0 where the rolling deviation is undefined (one sample) or
\* zero (constant window).
C25_VolumeZscoreDefined ==
  df # <<>> /\ features # <<>> =>
    \A i \in Idx(features) :
      /\ features[i].Volume_Zscore \notin {NaN, Inf, -Inf}
      /\ (\A j \in Idx(df) : j <= i /\ j > i - 20 => df[j].Volume = df[i].Volume)
           => features[i].Volume_Zscore = 0

\* C26: after feature engineering every row with High = Low has Price_Position
\* 50, whatever its Close.
C26_FlatRangeIsMidpoint ==
  df # <<>> /\ features # <<>> =>
    \A i \in Idx(features) :
      df[i].High = df[i].Low => features[i].Price_Position = 500

\* C27: the four classifiers of the repository give the same Behavior label to
\* every feature triple, and with each of them a row is Panic Selling only if
\* its Price_Change_Pct is below -2.5.
C27_ClassifiersAgree ==
  classifier # "none" =>
    \A i \in Idx(features) :
      /\ classified[i].Behavior = detect_investor_behavior(features)[i].Behavior
      /\ classified[i].Behavior = main_detect_investor_behavior(features)[i].Behavior
      /\ classified[i].Behavior = detect_behavior(features)[i].Behavior
      /\ classified[i].Behavior = yfinance_detect_investor_behavior(features)[i].Behavior
      /\ classified[i].Behavior = "Panic Selling"
           => features[i].Price_Change_Pct # NaN /\ features[i].Price_Change_Pct < -25

\* C28: after a clean_pipeline run the report's total_rows_original is the
\* number of rows of the dataset given to that run, so total_rows_cleaned is
\* at most total_rows_original, whoever the caller is.
C28_OriginalRowsCounted ==
  pc = "returned" /\ result = "df" =>
    /\ report.total_rows_original = Len(entry.rows)
    /\ report.total_rows_cleaned <= report.total_rows_original

\* C29: for a file whose column names are pairwise distinct, after the alias
\* renaming of convert_to_standard_format and after the capitalisation of
\* validate_stock_data each of Date, Open, High, Low, Close, Volume is the name
\* of at most one column.
C29_NoNameTwice ==
  pc # "idle" =>
    \A i \in Idx(columns) : \A j \in Idx(columns) :
      (i # j /\ \E k \in Idx(required_cols) : columns[i] = required_cols[k])
        => columns[i] # columns[j]

\* C30: the three rules of the file-pipeline classifier are pairwise disjoint:
\* no row matches more than one of them, so evaluating them in the opposite
\* order (the first match of Panic, FOMO, Overconfidence wins) gives every row
\* the same label and the same raw confidence.
C30_RulesDisjoint ==
  \A i \in Idx(features) :
    LET r == features[i]
        matched == {m \in {"panic", "fomo", "overtrade"} :
                      \/ m = "panic" /\ panic_mask(r)
                      \/ m = "fomo" /\ fomo_mask(r)
                      \/ m = "overtrade" /\ overtrade_mask(r)}
        first_label == IF panic_mask(r) THEN "Panic Selling"
                       ELSE IF fomo_mask(r) THEN "FOMO Buying"
                       ELSE IF overtrade_mask(r) THEN "Overconfidence" ELSE "Normal"
        first_raw == IF panic_mask(r) THEN panic_score(r)
                     ELSE IF fomo_mask(r) THEN fomo_score(r)
                     ELSE IF overtrade_mask(r) THEN overtrade_score(r) ELSE 0
    IN /\ Cardinality(matched) <= 1
       /\ classifier = "analyze_from_file" =>
            classified[i].Behavior = first_label /\ raw_confidence(r) = first_raw

\* a dataset in which one row is FOMO Buying and another Overconfidence
C30_Witness ==
  /\ classifier = "analyze_from_file"
  /\ Len(features) = 2
  /\ fomo_mask(features[1]) /\ classified[1].Behavior = "FOMO Buying"
  /\ overtrade_mask(features[2]) /\ classified[2].Behavior = "Overconfidence"

====
